---- MODULE Spec2Model ----
(***************************************************************************)
(* State-machine models of the interactive programs of the tutorial        *)
(* repository: the tic-tac-toe, hangman and number-guessing game loops,    *)
(* the Caesar cipher, the SQLite money transfer, the note-taking app, the  *)
(* password generator and its strength analysis, the robust calculator,    *)
(* the bank account, the task and contact managers, the database manager   *)
(* and the quiz.  Each program is independent of the others, so each has   *)
(* its own specification over its own variables; the variables of the      *)
(* other programs stay at their idle values.                               *)
(***************************************************************************)
EXTENDS Integers, Sequences, FiniteSets, TLC

VARIABLES
    \* TicTacToe (src/12_games_and_apps.py)
    board,            \* self.board: 3x3 list of lists of ' ', 'X', 'O'
    current_player,   \* self.current_player
    game_over,        \* self.game_over
    last_input,       \* what the last prompt of play_game read and what make_move returned
    announced,        \* what play_game printed: "none", "win" or "tie"
    accepted_moves,   \* number of make_move calls that returned True
    cw_result,        \* return value of a direct check_winner call, "unchecked" before it
    \* TextEncryptionTool.caesar_cipher (src/13_utility_tools.py)
    caesar_text,      \* the text handed to the encrypting call
    caesar_shift,     \* the shift handed to both calls
    caesar_encrypted, \* result of caesar_cipher(text, shift, True)
    caesar_decrypted, \* result of caesar_cipher(encrypted, shift, False)
    caesar_pc,        \* "idle", "input", "encrypted" or "decrypted"
    \* HangmanGame (src/12_games_and_apps.py)
    word,             \* self.word
    guessed_letters,  \* self.guessed_letters
    wrong_guesses,    \* self.wrong_guesses
    hangman_pc,       \* "idle", "constructed", "playing" (in the while loop) or "over"
    hangman_outcome,  \* what play_game printed at its end: "none", "won" or "lost"
    \* number_guessing_game (src/06_practical_projects.py)
    secret_number,    \* the local secret_number
    attempts,         \* the local attempts
    numeric_guesses,  \* how many inputs int() has accepted in this game
    guess_feedback,   \* what the last pass printed: "none", "invalid", "low", "high", "correct"
    guess_pc,         \* "idle", "playing", "won" (returned from the loop) or "lost"
    \* transaction_example (src/10_database_operations.py)
    accounts_db,      \* the committed rows of the accounts table: name -> balance
    accounts_tx,      \* the rows as the connection sees them (with uncommitted updates)
    in_transaction,   \* whether the connection has an open transaction
    initial_accounts, \* the balances committed by the setup, before the transfer
    transfer_amount,  \* the amount moved from Alice to Bob
    txn_outcome,      \* what was printed: "none", "committed", "rolled back" or "failed"
    txn_pc,           \* the statement transaction_example executes next
    \* NoteTakingApp (src/12_games_and_apps.py)
    notes,            \* self.notes: list of notes, each with id, title and category
    categories,       \* self.categories
    notes_file,       \* notes.json: whether it exists and the list it holds
    disk_writable,    \* whether open(self.filename, 'w') succeeds
    notes_pc,         \* "idle" or "running" (an app object exists)
    \* AdvancedPasswordGenerator.generate_password (src/13_utility_tools.py)
    pw_request,       \* the arguments of the call
    password,         \* the returned password, a sequence of characters
    pw_pc,            \* "idle", "called" or "returned"
    \* AdvancedPasswordGenerator.analyze_password_strength (src/13_utility_tools.py)
    analysed_password, \* the password handed to the call, a sequence of characters
    analysis,         \* the returned dict: score, strength and length
    strength_pc,      \* "idle", "called" or "returned"
    \* RobustCalculator (src/07_error_handling.py)
    history,          \* self.history: list of the entries appended
    calls,            \* number of safe_calculate calls since the last clear_history
    last_call,        \* the arguments of the last safe_calculate call
    returned,         \* what the last safe_calculate call returned, or the exception it raised
    calc_pc,          \* "idle", "ready" or "raised" (an exception left safe_calculate)
    \* BankAccount (src/04_functions_classes.py)
    balance,          \* self._balance
    bank_call,        \* the last deposit or withdraw call: amount, balance before it, return value
    bank_pc,          \* "idle" or "open" (an account exists)
    \* Task and TaskManager (src/11_advanced_projects.py)
    tasks,            \* task_manager.tasks: id -> Task (status, created_at, updated_at, id)
    tasks_table,      \* the rows of the tasks table: id -> status and timestamps as text
    clock,            \* the next reading of datetime.now()
    task_call,        \* the last update_status call: task, argument, return value, fields before
    fresh_tasks,      \* the tasks dict of a second TaskManager on the same database
    task_pc,          \* "idle", "managing" or "reloaded"
    \* DatabaseManager.add_post (src/10_database_operations.py)
    posts,            \* the rows of the posts table: id -> user_id and title
    posts_seq,        \* the sqlite_sequence value of posts: the largest id handed out
    add_post_returned, \* what the last add_post call returned
    inserted_id,      \* the id of the row the last add_post call inserted, 0 if none
    posts_pc,         \* "idle", "connected" or "added"
    \* QuizApp (src/12_games_and_apps.py)
    quiz_questions,   \* self.questions
    quiz_score,       \* self.score
    quiz_i,           \* the index i of the for loop of run_quiz
    quiz_answers,     \* the answers check_answer has been given, one per question
    quiz_input,       \* the last input: its kind, and score and question before it
    quiz_pc,          \* "idle", "asking" (at the prompt) or "results"
    \* Contact and ContactManager (src/11_advanced_projects.py)
    contacts,         \* contact_manager.contacts: id -> Contact
    contacts_table,   \* the rows of the contacts table: id -> columns
    contacts_seq,     \* the sqlite_sequence value of contacts: the largest id handed out
    contact_clock,    \* the next reading of datetime.now()
    contact_call,     \* the last ContactManager call: method, id and what it returned
    contacts_before,  \* dict and table as they were before the last call
    contact_pc        \* "idle", "managing" or "raised" (an exception left a method)

tttVars == <<board, current_player, game_over, last_input, announced, accepted_moves, cw_result>>
caesarVars == <<caesar_text, caesar_shift, caesar_encrypted, caesar_decrypted, caesar_pc>>
hangmanVars == <<word, guessed_letters, wrong_guesses, hangman_pc, hangman_outcome>>
guessVars == <<secret_number, attempts, numeric_guesses, guess_feedback, guess_pc>>
txnVars == <<accounts_db, accounts_tx, in_transaction, initial_accounts, transfer_amount,
             txn_outcome, txn_pc>>
notesVars == <<notes, categories, notes_file, disk_writable, notes_pc>>
pwVars == <<pw_request, password, pw_pc>>

strengthVars == <<analysed_password, analysis, strength_pc>>

calcVars == <<history, calls, last_call, returned, calc_pc>>

bankVars == <<balance, bank_call, bank_pc>>

tasksVars == <<tasks, tasks_table, clock, task_call, fresh_tasks, task_pc>>

postsVars == <<posts, posts_seq, add_post_returned, inserted_id, posts_pc>>

quizVars == <<quiz_questions, quiz_score, quiz_i, quiz_answers, quiz_input, quiz_pc>>

contactsVars == <<contacts, contacts_table, contacts_seq,
    contact_clock, contact_call, contacts_before, contact_pc>>

vars ==
    <<tttVars, caesarVars, hangmanVars, guessVars, txnVars, notesVars, pwVars, strengthVars,
      calcVars, bankVars, tasksVars, postsVars, quizVars, contactsVars>>

\* the variables of the programs other than the one a specification runs
nonTTT ==
    <<caesarVars, hangmanVars, guessVars, txnVars, notesVars, pwVars, strengthVars, calcVars,
      bankVars, tasksVars, postsVars, quizVars, contactsVars>>
nonCaesar ==
    <<tttVars, hangmanVars, guessVars, txnVars, notesVars, pwVars, strengthVars, calcVars,
      bankVars, tasksVars, postsVars, quizVars, contactsVars>>
nonHangman ==
    <<tttVars, caesarVars, guessVars, txnVars, notesVars, pwVars, strengthVars, calcVars,
      bankVars, tasksVars, postsVars, quizVars, contactsVars>>
nonGuess ==
    <<tttVars, caesarVars, hangmanVars, txnVars, notesVars, pwVars, strengthVars, calcVars,
      bankVars, tasksVars, postsVars, quizVars, contactsVars>>
nonTxn ==
    <<tttVars, caesarVars, hangmanVars, guessVars, notesVars, pwVars, strengthVars, calcVars,
      bankVars, tasksVars, postsVars, quizVars, contactsVars>>
nonNotes ==
    <<tttVars, caesarVars, hangmanVars, guessVars, txnVars, pwVars, strengthVars, calcVars,
      bankVars, tasksVars, postsVars, quizVars, contactsVars>>
nonPw ==
    <<tttVars, caesarVars, hangmanVars, guessVars, txnVars, notesVars, strengthVars, calcVars,
      bankVars, tasksVars, postsVars, quizVars, contactsVars>>
nonStrength ==
    <<tttVars, caesarVars, hangmanVars, guessVars, txnVars, notesVars, pwVars, calcVars,
      bankVars, tasksVars, postsVars, quizVars, contactsVars>>
nonCalc ==
    <<tttVars, caesarVars, hangmanVars, guessVars, txnVars, notesVars, pwVars, strengthVars,
      bankVars, tasksVars, postsVars, quizVars, contactsVars>>
nonBank ==
    <<tttVars, caesarVars, hangmanVars, guessVars, txnVars, notesVars, pwVars, strengthVars,
      calcVars, tasksVars, postsVars, quizVars, contactsVars>>
nonTasks ==
    <<tttVars, caesarVars, hangmanVars, guessVars, txnVars, notesVars, pwVars, strengthVars,
      calcVars, bankVars, postsVars, quizVars, contactsVars>>
nonPosts ==
    <<tttVars, caesarVars, hangmanVars, guessVars, txnVars, notesVars, pwVars, strengthVars,
      calcVars, bankVars, tasksVars, quizVars, contactsVars>>
nonQuiz ==
    <<tttVars, caesarVars, hangmanVars, guessVars, txnVars, notesVars, pwVars, strengthVars,
      calcVars, bankVars, tasksVars, postsVars, contactsVars>>
nonContacts ==
    <<tttVars, caesarVars, hangmanVars, guessVars, txnVars, notesVars, pwVars, strengthVars,
      calcVars, bankVars, tasksVars, postsVars, quizVars>>

----------------------------------------------------------------------------
(* TicTacToe *)

Idx == 0..2
Cells == {" ", "X", "O"}
Boards == [Idx -> [Idx -> Cells]]

\* TicTacToe.__init__: an empty board, X to move, game not over
EmptyBoard == [r \in Idx |-> [c \in Idx |-> " "]]

\* TicTacToe.make_move: the returned flag and the board after the call
make_move_overwrite(b, p, row, col) ==
    IF row < 0 \/ row >= 3 \/ col < 0 \/ col >= 3
    THEN [ok |-> FALSE, board |-> b]
    ELSE [ok |-> TRUE, board |-> [b EXCEPT ![row][col] = p]]

make_move(b, p, row, col) ==
    IF row < 0 \/ row >= 3 \/ col < 0 \/ col >= 3
    THEN [ok |-> FALSE, board |-> b]
    ELSE IF b[row][col] # " "
    THEN [ok |-> FALSE, board |-> b]
    ELSE [ok |-> TRUE, board |-> [b EXCEPT ![row][col] = p]]

\* the chained comparison  x == y == z != ' '
Same3(x, y, z) == x = y /\ y = z /\ z # " "

check_winner_one_diagonal(b) ==
    IF \E r \in Idx : Same3(b[r][0], b[r][1], b[r][2])
    THEN LET r == CHOOSE r \in Idx :
                     /\ Same3(b[r][0], b[r][1], b[r][2])
                     /\ \A q \in Idx : q < r => ~Same3(b[q][0], b[q][1], b[q][2])
         IN  b[r][0]
    ELSE IF \E c \in Idx : Same3(b[0][c], b[1][c], b[2][c])
    THEN LET c == CHOOSE c \in Idx :
                     /\ Same3(b[0][c], b[1][c], b[2][c])
                     /\ \A q \in Idx : q < c => ~Same3(b[0][q], b[1][q], b[2][q])
         IN  b[0][c]
    ELSE IF Same3(b[0][0], b[1][1], b[2][2]) THEN b[0][0]
    ELSE "None"

\* TicTacToe.check_winner: rows in order, then columns in order, then the two diagonals
check_winner(b) ==
    IF \E r \in Idx : Same3(b[r][0], b[r][1], b[r][2])
    THEN LET r == CHOOSE r \in Idx :
                     /\ Same3(b[r][0], b[r][1], b[r][2])
                     /\ \A q \in Idx : q < r => ~Same3(b[q][0], b[q][1], b[q][2])
         IN  b[r][0]
    ELSE IF \E c \in Idx : Same3(b[0][c], b[1][c], b[2][c])
    THEN LET c == CHOOSE c \in Idx :
                     /\ Same3(b[0][c], b[1][c], b[2][c])
                     /\ \A q \in Idx : q < c => ~Same3(b[0][q], b[1][q], b[2][q])
         IN  b[0][c]
    ELSE IF Same3(b[0][0], b[1][1], b[2][2]) THEN b[0][0]
    ELSE IF Same3(b[0][2], b[1][1], b[2][0]) THEN b[0][2]
    ELSE "None"

\* TicTacToe.is_board_full
is_board_full(b) == \A r \in Idx : \A c \in Idx : b[r][c] # " "

switch_player_stuck(p) == IF p = "X" THEN "O" ELSE "O"

\* TicTacToe.switch_player
switch_player(p) == IF p = "X" THEN "O" ELSE "X"

game_result_full_first(b) ==
    IF is_board_full(b) THEN "tie"
    ELSE IF check_winner(b) # "None" THEN "win"
    ELSE "none"

\* the if / elif / else that ends one round of play_game: a winner is looked for
\* first, a full board second
game_result(b) ==
    IF check_winner(b) # "None" THEN "win"
    ELSE IF is_board_full(b) THEN "tie"
    ELSE "none"

\* no TicTacToe object is in use
TTTIdle ==
    /\ board = EmptyBoard
    /\ current_player = "X"
    /\ game_over = FALSE
    /\ last_input = [kind |-> "none"]
    /\ announced = "none"
    /\ accepted_moves = 0
    /\ cw_result = "unchecked"

TTTInit ==
    /\ board = EmptyBoard
    /\ current_player = "X"
    /\ game_over = FALSE
    /\ last_input = [kind |-> "none"]
    /\ announced = "none"
    /\ accepted_moves = 0
    /\ cw_result = "unchecked"

\* the positions a player can type: 0..4, read as row/column -1..3
TypedPositions == -1..3

\* one pass of the inner loop of play_game in which int() raises ValueError
BadInput ==
    /\ ~game_over
    /\ last_input' = [kind |-> "ValueError"]
    /\ UNCHANGED <<board, current_player, game_over, announced, accepted_moves, cw_result>>
    /\ UNCHANGED nonTTT

\* one pass of the inner loop of play_game with two numbers typed; when make_move
\* accepts them, the rest of the round (winner, tie, switch_player) follows
PlayMove(row, col) ==
    LET m == make_move(board, current_player, row, col)
        res == game_result(m.board)
    IN  /\ ~game_over
        /\ last_input' = [kind |-> "move", row |-> row, col |-> col, ok |-> m.ok]
        /\ board' = m.board
        /\ cw_result' = cw_result
        /\ IF m.ok
           THEN /\ accepted_moves' = accepted_moves + 1
                /\ announced' = res
                /\ game_over' = (res # "none")
                /\ current_player' = IF res = "none" THEN switch_player(current_player)
                                                      ELSE current_player
           ELSE UNCHANGED <<accepted_moves, announced, game_over, current_player>>
        /\ UNCHANGED nonTTT

TTTNext ==
    \/ BadInput
    \/ \E row \in TypedPositions, col \in TypedPositions : PlayMove(row, col)


\* a direct call of check_winner on an arbitrary board (the board is a public
\* attribute, so a caller can hold any of the 3^9 boards)
WinnerInit ==
    /\ board \in Boards
    /\ current_player = "X"
    /\ game_over = FALSE
    /\ last_input = [kind |-> "none"]
    /\ announced = "none"
    /\ accepted_moves = 0
    /\ cw_result = "unchecked"

CallCheckWinner ==
    /\ cw_result = "unchecked"
    /\ cw_result' = check_winner(board)
    /\ UNCHANGED <<board, current_player, game_over, last_input, announced, accepted_moves>>
    /\ UNCHANGED nonTTT

WinnerNext == CallCheckWinner


----------------------------------------------------------------------------
(* TextEncryptionTool.caesar_cipher *)

\* self.alphabet and self.alphabet_upper, indexed from 0 as Python strings are
alphabet == [i \in 0..25 |-> <<"a", "b", "c", "d", "e", "f", "g", "h", "i", "j", "k", "l", "m",
                               "n", "o", "p", "q", "r", "s", "t", "u", "v", "w", "x", "y", "z">>[i + 1]]
alphabet_upper == [i \in 0..25 |-> <<"A", "B", "C", "D", "E", "F", "G", "H", "I", "J", "K", "L", "M",
                                     "N", "O", "P", "Q", "R", "S", "T", "U", "V", "W", "X", "Y", "Z">>[i + 1]]

\* str.islower / str.isupper on one ASCII character
islower(char) == \E i \in DOMAIN alphabet : alphabet[i] = char
isupper(char) == \E i \in DOMAIN alphabet_upper : alphabet_upper[i] = char

\* str.index: the position of the character in the alphabet string
index(str, char) == CHOOSE i \in DOMAIN str : str[i] = char

\* the body of the for loop of caesar_cipher: what one character contributes to result
shift_char(char, shift) ==
    IF islower(char) THEN alphabet[(index(alphabet, char) + shift) % 26]
    ELSE IF isupper(char) THEN alphabet_upper[(index(alphabet_upper, char) + shift) % 26]
    ELSE char

caesar_cipher_always_forward(text, shift, encrypt) ==
    [i \in 1..Len(text) |-> shift_char(text[i], shift)]

\* TextEncryptionTool.caesar_cipher: the shift is negated for decryption and
\* every character is shifted in turn
caesar_cipher(text, shift, encrypt) ==
    LET s == IF encrypt THEN shift ELSE -shift
    IN  [i \in 1..Len(text) |-> shift_char(text[i], s)]

\* length of the texts that are enumerated in full
MaxTextLen == 1

\* characters that are not letters
NonLetters == {" ", "7", "!"}

CaesarChars == {alphabet[i] : i \in 0..25} \cup {alphabet_upper[i] : i \in 0..25} \cup NonLetters

\* longer texts mixing both cases, wrap-around letters and non-letters
SampleTexts ==
    { <<"H", "e", "l", "l", "o", "!", " ", "W", "o", "r", "l", "d", "7">>,
      <<"x", "y", "z", " ", "X", "Y", "Z", " ", "a", "A">> }

CaesarTexts ==
    UNION {[1..n -> CaesarChars] : n \in 0..MaxTextLen} \cup SampleTexts

\* the shifts the menu asks for, and 0
Shifts == 0..25

\* no caesar_cipher call is in progress
CaesarIdle ==
    /\ caesar_text = <<>>
    /\ caesar_shift = 0
    /\ caesar_encrypted = <<>>
    /\ caesar_decrypted = <<>>
    /\ caesar_pc = "idle"

CaesarInit ==
    /\ caesar_text \in CaesarTexts
    /\ caesar_shift \in Shifts
    /\ caesar_encrypted = <<>>
    /\ caesar_decrypted = <<>>
    /\ caesar_pc = "input"

\* encrypted = caesar_cipher(text, shift, True)
Encrypt ==
    /\ caesar_pc = "input"
    /\ caesar_encrypted' = caesar_cipher(caesar_text, caesar_shift, TRUE)
    /\ caesar_pc' = "encrypted"
    /\ UNCHANGED <<caesar_text, caesar_shift, caesar_decrypted>>
    /\ UNCHANGED nonCaesar

\* decrypted = caesar_cipher(encrypted, shift, False)
Decrypt ==
    /\ caesar_pc = "encrypted"
    /\ caesar_decrypted' = caesar_cipher(caesar_encrypted, caesar_shift, FALSE)
    /\ caesar_pc' = "decrypted"
    /\ UNCHANGED <<caesar_text, caesar_shift, caesar_encrypted>>
    /\ UNCHANGED nonCaesar

CaesarNext == Encrypt \/ Decrypt

----------------------------------------------------------------------------
(* HangmanGame *)

\* self.words, each word with its characters
words ==
    { <<"p", "y", "t", "h", "o", "n">>,
      <<"p", "r", "o", "g", "r", "a", "m", "m", "i", "n", "g">>,
      <<"c", "o", "m", "p", "u", "t", "e", "r">>,
      <<"a", "l", "g", "o", "r", "i", "t", "h", "m">>,
      <<"f", "u", "n", "c", "t", "i", "o", "n">>,
      <<"v", "a", "r", "i", "a", "b", "l", "e">>,
      <<"d", "i", "c", "t", "i", "o", "n", "a", "r", "y">>,
      <<"l", "i", "s", "t">>,
      <<"s", "t", "r", "i", "n", "g">>,
      <<"i", "n", "t", "e", "g", "e", "r">>,
      <<"b", "o", "o", "l", "e", "a", "n">>,
      <<"c", "l", "a", "s", "s">>,
      <<"o", "b", "j", "e", "c", "t">>,
      <<"m", "e", "t", "h", "o", "d">>,
      <<"i", "n", "h", "e", "r", "i", "t", "a", "n", "c", "e">> }

\* self.max_wrong_guesses
max_wrong_guesses == 6

\* letter in self.word
in_word(letter, w) == \E i \in 1..Len(w) : w[i] = letter

\* HangmanGame.make_guess: the guessed letters and the wrong-guess counter after the call
make_guess(letter, w, guessed, wrong) ==
    IF letter \in guessed
    THEN [guessed_letters |-> guessed, wrong_guesses |-> wrong]
    ELSE IF in_word(letter, w)
    THEN [guessed_letters |-> guessed \cup {letter}, wrong_guesses |-> wrong]
    ELSE [guessed_letters |-> guessed \cup {letter}, wrong_guesses |-> wrong + 1]

\* HangmanGame.is_game_won
is_game_won(w, guessed) == \A i \in 1..Len(w) : w[i] \in guessed

is_game_lost_off_by_one(wrong) == wrong > max_wrong_guesses

\* HangmanGame.is_game_lost
is_game_lost(wrong) == wrong >= max_wrong_guesses

\* how many letters that are not in the word the player may type
NumWrongLetters == 7

\* the longest word random.choice is let to pick
MaxWordLen == 6

\* the letters of the alphabet that are not in the word, in alphabetical order
LettersNotIn(w) == {i \in 0..25 : ~in_word(alphabet[i], w)}

\* the letters the player types: every letter of the word and the first
\* NumWrongLetters letters that are not in it
GuessLetters(w) ==
    {w[i] : i \in 1..Len(w)} \cup
    {alphabet[i] : i \in {j \in LettersNotIn(w) :
                             Cardinality({k \in LettersNotIn(w) : k <= j}) <= NumWrongLetters}}

\* no HangmanGame object is in use
HangmanIdle ==
    /\ word = <<>>
    /\ guessed_letters = {}
    /\ wrong_guesses = 0
    /\ hangman_pc = "idle"
    /\ hangman_outcome = "none"

\* HangmanGame.__init__
HangmanInit ==
    /\ word = <<>>
    /\ guessed_letters = {}
    /\ wrong_guesses = 0
    /\ hangman_pc = "constructed"
    /\ hangman_outcome = "none"

\* play_game up to its while loop: select_random_word
SelectRandomWord ==
    /\ hangman_pc = "constructed"
    /\ word' \in {w \in words : Len(w) <= MaxWordLen}
    /\ guessed_letters' = {}
    /\ wrong_guesses' = 0
    /\ hangman_pc' = "playing"
    /\ UNCHANGED hangman_outcome
    /\ UNCHANGED nonHangman

\* one pass of the while loop with an input that is not a single letter
NotALetter ==
    /\ hangman_pc = "playing"
    /\ UNCHANGED hangmanVars
    /\ UNCHANGED nonHangman

\* one pass of the while loop with a single letter typed, then the loop
\* condition and, when it ends the loop, the final report
GuessLetter(letter) ==
    LET g == make_guess(letter, word, guessed_letters, wrong_guesses)
        continue == ~is_game_won(word, g.guessed_letters) /\ ~is_game_lost(g.wrong_guesses)
    IN  /\ hangman_pc = "playing"
        /\ guessed_letters' = g.guessed_letters
        /\ wrong_guesses' = g.wrong_guesses
        /\ hangman_pc' = IF continue THEN "playing" ELSE "over"
        /\ hangman_outcome' = IF continue THEN "none"
                              ELSE IF is_game_won(word, g.guessed_letters) THEN "won"
                              ELSE "lost"
        /\ UNCHANGED word
        /\ UNCHANGED nonHangman

HangmanNext ==
    \/ SelectRandomWord
    \/ NotALetter
    \/ \E letter \in GuessLetters(word) : GuessLetter(letter)

----------------------------------------------------------------------------
(* number_guessing_game *)

\* max_attempts = 7
max_attempts == 7

\* random.randint(1, 100)
SecretNumbers == 1..100

\* the numbers a player is let to type: the ends of the range, one number on
\* either side of it, the middle, and the secret number itself
TypedNumbers(secret) == {0, 1, 50, 100, 101, secret}

\* how far below zero the model follows the attempts counter
MaxAttemptsBelowZero == 3

\* how many numeric guesses of one game the model follows
MaxNumericGuesses == 9

\* number_guessing_game is not running
GuessIdle ==
    /\ secret_number = 0
    /\ attempts = 0
    /\ numeric_guesses = 0
    /\ guess_feedback = "none"
    /\ guess_pc = "idle"

\* number_guessing_game up to its while loop
GuessInit ==
    /\ secret_number \in SecretNumbers
    /\ attempts = 0
    /\ numeric_guesses = 0
    /\ guess_feedback = "none"
    /\ guess_pc = "playing"

\* one pass of the while loop in which int(input(...)) raises ValueError: the
\* increment of attempts is not reached, the handler decrements attempts
InvalidGuess ==
    /\ guess_pc = "playing"
    /\ attempts > -MaxAttemptsBelowZero
    /\ attempts' = attempts - 1
    /\ guess_feedback' = "invalid"
    /\ guess_pc' = IF attempts' < max_attempts THEN "playing" ELSE "lost"
    /\ UNCHANGED <<secret_number, numeric_guesses>>
    /\ UNCHANGED nonGuess

\* one pass of the while loop with a number typed
NumericGuess(guess) ==
    /\ guess_pc = "playing"
    /\ numeric_guesses < MaxNumericGuesses
    /\ attempts' = attempts + 1
    /\ numeric_guesses' = numeric_guesses + 1
    /\ guess_feedback' = IF guess = secret_number THEN "correct"
                         ELSE IF guess < secret_number THEN "low"
                         ELSE "high"
    /\ guess_pc' = IF guess = secret_number THEN "won"
                   ELSE IF attempts' < max_attempts THEN "playing"
                   ELSE "lost"
    /\ UNCHANGED secret_number
    /\ UNCHANGED nonGuess

GuessNext ==
    \/ InvalidGuess
    \/ \E guess \in TypedNumbers(secret_number) : NumericGuess(guess)

----------------------------------------------------------------------------
(* transaction_example *)

\* balances are whole hundreds of dollars up to 100 * MaxBalanceHundreds; the
\* example itself inserts 1000.0 for Alice and 500.0 for Bob
MaxBalanceHundreds == 10
Balances == {100 * k : k \in 0..MaxBalanceHundreds}

\* the transfer is 200 in the example; other amounts stand for the same two
\* UPDATE statements with another literal
MaxAmountHundreds == 3
Amounts == {100 * k : k \in 0..MaxAmountHundreds}

\* UPDATE accounts SET balance = balance - amount WHERE name = 'Alice'
debit(rows, amount) == [rows EXCEPT !.Alice = @ - amount]

\* UPDATE accounts SET balance = balance + amount WHERE name = 'Bob'
credit(rows, amount) == [rows EXCEPT !.Bob = @ + amount]

never_insufficient(alice_balance) == FALSE

\* if alice_balance < 0
insufficient_funds(alice_balance) == alice_balance < 0

\* transaction_example is not running
TxnIdle ==
    /\ accounts_db = [Alice |-> 0, Bob |-> 0]
    /\ accounts_tx = [Alice |-> 0, Bob |-> 0]
    /\ in_transaction = FALSE
    /\ initial_accounts = [Alice |-> 0, Bob |-> 0]
    /\ transfer_amount = 0
    /\ txn_outcome = "none"
    /\ txn_pc = "idle"

\* transaction_example up to its try block: the table is cleared, the two rows
\* are inserted and committed
TxnInit ==
    /\ initial_accounts \in [Alice : Balances, Bob : Balances]
    /\ accounts_db = initial_accounts
    /\ accounts_tx = initial_accounts
    /\ in_transaction = FALSE
    /\ transfer_amount \in Amounts
    /\ txn_outcome = "none"
    /\ txn_pc = "begin"

\* conn.execute("BEGIN TRANSACTION")
Begin ==
    /\ txn_pc = "begin"
    /\ in_transaction' = TRUE
    /\ txn_pc' = "debit"
    /\ UNCHANGED <<accounts_db, accounts_tx, initial_accounts, transfer_amount, txn_outcome>>
    /\ UNCHANGED nonTxn

\* the first UPDATE, seen by this connection only
Debit ==
    /\ txn_pc = "debit"
    /\ accounts_tx' = debit(accounts_tx, transfer_amount)
    /\ txn_pc' = "credit"
    /\ UNCHANGED <<accounts_db, in_transaction, initial_accounts, transfer_amount, txn_outcome>>
    /\ UNCHANGED nonTxn

\* the second UPDATE
Credit ==
    /\ txn_pc = "credit"
    /\ accounts_tx' = credit(accounts_tx, transfer_amount)
    /\ txn_pc' = "check"
    /\ UNCHANGED <<accounts_db, in_transaction, initial_accounts, transfer_amount, txn_outcome>>
    /\ UNCHANGED nonTxn

\* SELECT balance ... 'Alice', then conn.rollback() or conn.commit()
CheckAndFinish ==
    /\ txn_pc = "check"
    /\ IF insufficient_funds(accounts_tx.Alice)
       THEN /\ accounts_tx' = accounts_db
            /\ accounts_db' = accounts_db
            /\ txn_outcome' = "rolled back"
       ELSE /\ accounts_db' = accounts_tx
            /\ accounts_tx' = accounts_tx
            /\ txn_outcome' = "committed"
    /\ in_transaction' = FALSE
    /\ txn_pc' = "close"
    /\ UNCHANGED <<initial_accounts, transfer_amount>>
    /\ UNCHANGED nonTxn

\* a statement of the try block raises sqlite3.Error: the handler rolls back
SqliteError ==
    /\ txn_pc \in {"begin", "debit", "credit", "check"}
    /\ accounts_tx' = accounts_db
    /\ in_transaction' = FALSE
    /\ txn_outcome' = "failed"
    /\ txn_pc' = "close"
    /\ UNCHANGED <<accounts_db, initial_accounts, transfer_amount>>
    /\ UNCHANGED nonTxn

\* conn.close(): whatever is uncommitted is dropped
Close ==
    /\ txn_pc = "close"
    /\ accounts_tx' = accounts_db
    /\ in_transaction' = FALSE
    /\ txn_pc' = "closed"
    /\ UNCHANGED <<accounts_db, initial_accounts, transfer_amount, txn_outcome>>
    /\ UNCHANGED nonTxn

TxnNext == Begin \/ Debit \/ Credit \/ CheckAndFinish \/ SqliteError \/ Close

----------------------------------------------------------------------------
(* NoteTakingApp *)

\* a note is modelled with its id, title and category; content is set and
\* edited exactly as title is, and the two timestamps are never read
MaxNotes == 3

\* the titles and categories a user types; "" stands for an empty input, which
\* run_app passes on as a false value
Titles == {"a", "b"}
CategoryNames == {"General", "Work"}

\* the note ids a user types
TypedIds == 0..(MaxNotes + 1)

\* position of the first note with the given id, 0 when there is none
FirstWithId(list, note_id) ==
    IF \E i \in 1..Len(list) : list[i].id = note_id
    THEN CHOOSE i \in 1..Len(list) :
             /\ list[i].id = note_id
             /\ \A j \in 1..(i - 1) : list[j].id # note_id
    ELSE 0

\* NoteTakingApp.save_notes: the file after the call
save_notes(list) ==
    IF disk_writable THEN [exists |-> TRUE, notes |-> list] ELSE notes_file

\* no NoteTakingApp object is in use and there is no notes.json
NotesIdle ==
    /\ notes = <<>>
    /\ categories = {}
    /\ notes_file = [exists |-> FALSE, notes |-> <<>>]
    /\ disk_writable = TRUE
    /\ notes_pc = "idle"

\* NoteTakingApp.__init__ with no notes.json
NotesInit ==
    /\ notes = <<>>
    /\ categories = {}
    /\ notes_file = [exists |-> FALSE, notes |-> <<>>]
    /\ disk_writable \in BOOLEAN
    /\ notes_pc = "running"

\* the app is left and a new NoteTakingApp is constructed: __init__ and load_notes
Restart ==
    /\ notes_pc = "running"
    /\ notes' = IF notes_file.exists THEN notes_file.notes ELSE <<>>
    /\ categories' = {}
    /\ UNCHANGED <<notes_file, disk_writable, notes_pc>>
    /\ UNCHANGED nonNotes

\* NoteTakingApp.create_note
create_note(title, category) ==
    LET note == [id |-> Len(notes) + 1, title |-> title, category |-> category]
    IN  /\ notes_pc = "running"
        /\ Len(notes) < MaxNotes
        /\ notes' = Append(notes, note)
        /\ categories' = categories \cup {category}
        /\ notes_file' = save_notes(notes')
        /\ UNCHANGED <<disk_writable, notes_pc>>
        /\ UNCHANGED nonNotes

\* NoteTakingApp.edit_note
edit_note(note_id, new_title, new_category) ==
    LET i == FirstWithId(notes, note_id)
    IN  /\ notes_pc = "running"
        /\ IF i # 0
           THEN /\ notes' = [notes EXCEPT
                               ![i].title = IF new_title # "" THEN new_title ELSE @,
                               ![i].category = IF new_category # "" THEN new_category ELSE @]
                /\ categories' = IF new_category # "" THEN categories \cup {new_category}
                                                      ELSE categories
                /\ notes_file' = save_notes(notes')
           ELSE UNCHANGED <<notes, categories, notes_file>>
        /\ UNCHANGED <<disk_writable, notes_pc>>
        /\ UNCHANGED nonNotes

\* list.pop(i) for a position i counted from 1
Pop(list, i) == [j \in 1..(Len(list) - 1) |-> IF j < i THEN list[j] ELSE list[j + 1]]

\* NoteTakingApp.delete_note
delete_note(note_id) ==
    LET i == FirstWithId(notes, note_id)
    IN  /\ notes_pc = "running"
        /\ IF i # 0
           THEN /\ notes' = Pop(notes, i)
                /\ notes_file' = save_notes(notes')
           ELSE UNCHANGED <<notes, notes_file>>
        /\ UNCHANGED <<categories, disk_writable, notes_pc>>
        /\ UNCHANGED nonNotes

NotesNext ==
    \/ Restart
    \/ \E title \in Titles, category \in CategoryNames : create_note(title, category)
    \/ \E note_id \in TypedIds, new_title \in Titles \cup {""},
          new_category \in CategoryNames \cup {""} : edit_note(note_id, new_title, new_category)
    \/ \E note_id \in TypedIds : delete_note(note_id)

----------------------------------------------------------------------------
(* AdvancedPasswordGenerator *)

\* the character sets of __init__
lowercase == {alphabet[i] : i \in 0..25}
uppercase == {alphabet_upper[i] : i \in 0..25}
digits == {"0", "1", "2", "3", "4", "5", "6", "7", "8", "9"}
symbols == {"!", "@", "#", "$", "%", "^", "&", "*", "(", ")", "_", "+", "-", "=", "[", "]",
            "{", "}", "|", ";", ":", ",", ".", "<", ">", "?"}
similar_chars == {"0", "O", "1", "l", "I"}
\* (the backslash, the double quote and the backquote of self.ambiguous_chars are
\* left out: no character set holds them)
ambiguous_chars == {"{", "}", "[", "]", "(", ")", "/", "'", "~", ",", ";", ".", "<", ">"}

\* the characters random.choice is let to draw: of each set one that no
\* exclusion removes and one that an exclusion removes
DrawnChars == {"a", "l", "A", "O", "7", "0", "!", "{"}

\* random.choice(s): any character of s
choice(s) == s \cap DrawnChars

\* steps 1 to 3 of generate_password: the characters the filling draws from
fill_chars(req) ==
    LET all == lowercase
               \cup (IF req.include_uppercase THEN uppercase ELSE {})
               \cup (IF req.include_digits THEN digits ELSE {})
               \cup (IF req.include_symbols THEN symbols ELSE {})
        no_similar == IF req.exclude_similar THEN all \ similar_chars ELSE all
    IN  IF req.exclude_ambiguous THEN no_similar \ ambiguous_chars ELSE no_similar

\* step 5: if length < 4: length = 4
effective_length(length) == IF length < 4 THEN 4 ELSE length

required_chars_no_digit(req, up, di, sy) ==
    (IF req.include_uppercase THEN <<up>> ELSE <<>>) \o
    (IF req.include_symbols THEN <<sy>> ELSE <<>>)

\* step 7: one character of each requested type, drawn as up, di and sy
required_chars(req, up, di, sy) ==
    (IF req.include_uppercase THEN <<up>> ELSE <<>>) \o
    (IF req.include_digits THEN <<di>> ELSE <<>>) \o
    (IF req.include_symbols THEN <<sy>> ELSE <<>>)

\* the longest password length that is requested
MaxPwLength == 5

\* the orders random.shuffle is let to produce for a list of n elements: the n
\* rotations of the list and the n rotations of the reversed list (order[i] is
\* the old place of the element that comes to place i)
ShuffleOrders(n) ==
    {[i \in 1..n |-> ((i - 1 + k) % n) + 1] : k \in 0..(n - 1)} \cup
    {[i \in 1..n |-> n - ((i - 1 + k) % n)] : k \in 0..(n - 1)}

PwRequests ==
    [length : 0..MaxPwLength, include_uppercase : BOOLEAN, include_digits : BOOLEAN,
     include_symbols : BOOLEAN, exclude_similar : BOOLEAN, exclude_ambiguous : BOOLEAN]

\* no generate_password call is in progress
PwIdle ==
    /\ pw_request = [length |-> 0, include_uppercase |-> FALSE, include_digits |-> FALSE,
                     include_symbols |-> FALSE, exclude_similar |-> FALSE,
                     exclude_ambiguous |-> FALSE]
    /\ password = <<>>
    /\ pw_pc = "idle"

\* generate_password has been called with some arguments
PwInit ==
    /\ pw_request \in PwRequests
    /\ password = <<>>
    /\ pw_pc = "called"

\* AdvancedPasswordGenerator.generate_password: the required characters, the
\* filling, random.shuffle and the join
generate_password ==
    /\ pw_pc = "called"
    /\ fill_chars(pw_request) # {}
    /\ \E up \in choice(uppercase), di \in choice(digits), sy \in choice(symbols) :
         LET required == required_chars(pw_request, up, di, sy)
             length == effective_length(pw_request.length)
         IN  \E fill \in [1..(length - Len(required)) -> choice(fill_chars(pw_request))] :
               LET list == required \o fill
               IN  \E order \in ShuffleOrders(Len(list)) :
                     password' = [i \in 1..Len(list) |-> list[order[i]]]
    /\ pw_pc' = "returned"
    /\ UNCHANGED pw_request
    /\ UNCHANGED nonPw

PwNext == generate_password

----------------------------------------------------------------------------
(* AdvancedPasswordGenerator.analyze_password_strength *)

\* str.lower on one character
lower(char) == IF isupper(char) THEN alphabet[index(alphabet_upper, char)] ELSE char

\* pattern in text, for two sequences of characters
occurs_in(pattern, text) ==
    \E i \in 1..(Len(text) - Len(pattern) + 1) :
        \A j \in 1..Len(pattern) : text[i + j - 1] = pattern[j]

\* common_patterns
common_patterns ==
    { <<"1", "2", "3">>, <<"a", "b", "c">>, <<"q", "w", "e">>,
      <<"p", "a", "s", "s", "w", "o", "r", "d">>, <<"a", "d", "m", "i", "n">> }

\* strength_levels, indexed from 0
strength_levels ==
    [i \in 0..5 |-> <<"Very Weak", "Weak", "Fair", "Good", "Strong", "Very Strong">>[i + 1]]

Min(a, b) == IF a <= b THEN a ELSE b

\* the points of the seven criteria of analyze_password_strength, in the order
\* the method adds them
length_points(pw) == IF Len(pw) >= 12 THEN 2 ELSE IF Len(pw) >= 8 THEN 1 ELSE 0
lowercase_points(pw) == IF \E i \in 1..Len(pw) : islower(pw[i]) THEN 1 ELSE 0
uppercase_points(pw) == IF \E i \in 1..Len(pw) : isupper(pw[i]) THEN 1 ELSE 0
digit_points(pw) == IF \E i \in 1..Len(pw) : pw[i] \in digits THEN 1 ELSE 0
symbol_points(pw) == IF \E i \in 1..Len(pw) : pw[i] \in symbols THEN 1 ELSE 0
no_repeat_points(pw) == IF ~\E i \in 1..(Len(pw) - 1) : pw[i] = pw[i + 1] THEN 1 ELSE 0
no_pattern_points(pw) ==
    LET lowered == [i \in 1..Len(pw) |-> lower(pw[i])]
    IN  IF ~\E pattern \in common_patterns : occurs_in(pattern, lowered) THEN 1 ELSE 0

\* AdvancedPasswordGenerator.analyze_password_strength: the returned dict
\* without its feedback texts
analyze_password_strength(pw) ==
    LET score == length_points(pw) + lowercase_points(pw) + uppercase_points(pw)
                 + digit_points(pw) + symbol_points(pw) + no_repeat_points(pw)
                 + no_pattern_points(pw)
    IN  [score |-> score,
         strength |-> strength_levels[Min(score, 5)],
         length |-> Len(pw)]

\* the passwords that are analysed are made of up to MaxBlocks of these pieces
PasswordBlocks ==
    { <<"X", "k", "9", "!">>, <<"a", "b", "c">>, <<"1", "2", "3">>,
      <<"A", "d", "m", "i", "n">>, <<"z", "z">>, <<"Q">>, <<"7">>, <<"#">> }

MaxBlocks == 4

RECURSIVE JoinBlocks(_)
JoinBlocks(blocks) ==
    IF blocks = <<>> THEN <<>> ELSE Head(blocks) \o JoinBlocks(Tail(blocks))

AnalysedPasswords ==
    {JoinBlocks(blocks) : blocks \in UNION {[1..n -> PasswordBlocks] : n \in 0..MaxBlocks}}

\* no analyze_password_strength call is in progress
StrengthIdle ==
    /\ analysed_password = <<>>
    /\ analysis = [score |-> 0, strength |-> "Very Weak", length |-> 0]
    /\ strength_pc = "idle"

\* a password has been typed at "Enter password to analyze: "
StrengthInit ==
    /\ analysed_password \in AnalysedPasswords
    /\ analysis = [score |-> 0, strength |-> "Very Weak", length |-> 0]
    /\ strength_pc = "called"

\* analysis = self.analyze_password_strength(password)
Analyze ==
    /\ strength_pc = "called"
    /\ analysis' = analyze_password_strength(analysed_password)
    /\ strength_pc' = "returned"
    /\ UNCHANGED analysed_password
    /\ UNCHANGED nonStrength

StrengthNext == Analyze

----------------------------------------------------------------------------
(* RobustCalculator (src/07_error_handling.py)                              *)

\* Python values.  An int is its value; a float is mant * 2^exp with an odd
\* mantissa (0.0 is mant 0, exp 0; inf is exp 1024); a str is its text.
IntVal(n) == [type |-> "int", mant |-> n, exp |-> 0]
StrVal(s) == [type |-> "str", text |-> s]
None == [type |-> "NoneType"]

Abs(n) == IF n < 0 THEN -n ELSE n

RECURSIVE BitLength(_)
BitLength(n) == IF n = 0 THEN 0 ELSE 1 + BitLength(n \div 2)

RECURSIVE IntPow(_, _)
IntPow(m, n) ==
    IF n = 0 THEN 1
    ELSE LET h == IntPow(m, n \div 2) IN IF n % 2 = 0 THEN h * h ELSE h * h * m

\* the largest binary exponent of a finite float is 1023, the smallest -1074
FloatMaxExp == 1024
FloatMinExp == -1074

Inf(sign) == [type |-> "float", mant |-> sign, exp |-> FloatMaxExp]

RECURSIVE Normalize(_, _)
Normalize(m, e) ==
    IF m = 0 THEN [type |-> "float", mant |-> 0, exp |-> 0]
    ELSE IF m % 2 = 0 THEN Normalize(m \div 2, e + 1)
    ELSE [type |-> "float", mant |-> m, exp |-> e]

\* m * 2^e is too large for a float
Overflows(m, e) == m # 0 /\ e + BitLength(Abs(m)) - 1 >= FloatMaxExp

\* the float a C double operation yields for the exact value m * 2^e
FloatOf(m, e) ==
    IF Overflows(m, e) THEN Inf(IF m < 0 THEN -1 ELSE 1)
    ELSE IF m # 0 /\ e + BitLength(Abs(m)) - 1 < FloatMinExp THEN Normalize(0, 0)
    ELSE Normalize(m, e)

\* float(v) of an int or a float
to_float(v) == IF v.type = "int" THEN Normalize(v.mant, 0) ELSE v

\* isinstance(v, (int, float))
is_number(v) == v.type \in {"int", "float"}

\* v == 0
is_zero(v) == v.mant = 0

Returns(v) == [raised |-> FALSE, value |-> v]
Raises(exc, text) == [raised |-> TRUE, exception |-> exc, text |-> text]

\* a + b and a - b (sign is 1 or -1)
py_add(a, b, sign) ==
    IF a.type = "int" /\ b.type = "int" THEN IntVal(a.mant + sign * b.mant)
    ELSE LET x == to_float(a)
             y == to_float(b)
             e == Min(x.exp, y.exp)
         IN  FloatOf(x.mant * IntPow(2, x.exp - e) + sign * y.mant * IntPow(2, y.exp - e), e)

\* a * b
py_mul(a, b) ==
    IF a.type = "int" /\ b.type = "int" THEN IntVal(a.mant * b.mant)
    ELSE LET x == to_float(a)
             y == to_float(b)
         IN  FloatOf(x.mant * y.mant, x.exp + y.exp)

\* the bits of a quotient kept when the divisor is not a power of two (a float
\* keeps 53)
QuotientBits == 16

\* a / b for b # 0: always a float
py_truediv(a, b) ==
    LET x == to_float(a)
        y == to_float(b)
    IN  IF Abs(y.mant) = 1 THEN FloatOf(x.mant * y.mant, x.exp - y.exp)
        ELSE LET q == (Abs(x.mant) * IntPow(2, QuotientBits)) \div Abs(y.mant)
                 s == IF (x.mant < 0) # (y.mant < 0) THEN -1 ELSE 1
             IN  FloatOf(s * q, x.exp - y.exp - QuotientBits)

\* x ** n for a float x and a whole exponent n
float_pow(x, n) ==
    IF n >= 0
    THEN IF x.mant # 0 /\ (x.exp + BitLength(Abs(x.mant)) - 1) * n >= FloatMaxExp
         THEN Raises("OverflowError", "(34, 'Numerical result out of range')")
         ELSE IF Overflows(IntPow(x.mant, n), x.exp * n)
         THEN Raises("OverflowError", "(34, 'Numerical result out of range')")
         ELSE Returns(FloatOf(IntPow(x.mant, n), x.exp * n))
    ELSE IF x.mant = 0
         THEN Raises("ZeroDivisionError", "0.0 cannot be raised to a negative power")
         ELSE IF Abs(x.mant) = 1
         THEN IF Overflows(1, x.exp * n)
              THEN Raises("OverflowError", "(34, 'Numerical result out of range')")
              ELSE Returns(FloatOf(IntPow(x.mant, -n), x.exp * n))
         ELSE IF (x.exp + BitLength(Abs(x.mant))) * n >= FloatMaxExp
         THEN Raises("OverflowError", "(34, 'Numerical result out of range')")
         ELSE Returns(py_truediv(IntVal(1), FloatOf(IntPow(x.mant, -n), x.exp * (-n))))

\* a ** b for numbers with a whole exponent b
py_pow(a, b) ==
    LET n == to_float(b).mant * IntPow(2, to_float(b).exp)
    IN  IF a.type = "int" /\ b.type = "int" /\ n >= 0
        THEN Returns(IntVal(IntPow(a.mant, n)))
        ELSE float_pow(to_float(a), n)

\* the try block of safe_calculate up to the computation of result
calculate(operation, a, b) ==
    IF ~is_number(a) \/ ~is_number(b)
    THEN Raises("TypeError", "Both operands must be numbers")
    ELSE IF operation = "add" THEN Returns(py_add(a, b, 1))
    ELSE IF operation = "subtract" THEN Returns(py_add(a, b, -1))
    ELSE IF operation = "multiply" THEN Returns(py_mul(a, b))
    ELSE IF operation = "divide"
         THEN IF is_zero(b) THEN Raises("ZeroDivisionError", "Cannot divide by zero")
              ELSE Returns(py_truediv(a, b))
    ELSE IF operation = "power" THEN py_pow(a, b)
    ELSE Raises("ValueError", "Unknown operation: " \o operation)

\* the exceptions the except clause of safe_calculate names
caught_exceptions == {"TypeError", "ZeroDivisionError", "ValueError"}

\* the calls made: those of test_calculations and further ones on ints and floats
test_calculations ==
    { <<"add", IntVal(5), IntVal(3)>>,
      <<"divide", IntVal(10), IntVal(0)>>,
      <<"multiply", StrVal("5"), IntVal(3)>>,
      <<"power", IntVal(2), IntVal(8)>>,
      <<"unknown", IntVal(1), IntVal(2)>>,
      <<"subtract", IntVal(3), Normalize(5, -1)>>,
      <<"divide", IntVal(7), IntVal(2)>>,
      <<"divide", IntVal(10), IntVal(3)>>,
      <<"divide", Normalize(1, 0), Normalize(0, 0)>>,
      <<"multiply", Normalize(1, 1023), IntVal(2)>>,
      <<"power", IntVal(2), IntVal(-1)>>,
      <<"power", IntVal(0), IntVal(-1)>>,
      <<"power", Normalize(1, 1), IntVal(1024)>>,
      <<"add", IntVal(1), StrVal("2")>> }

\* the longest sequence of calls between two clear_history calls
MaxCalls == 2

\* no calculator exists
CalcIdle ==
    /\ history = <<>>
    /\ calls = 0
    /\ last_call = <<>>
    /\ returned = None
    /\ calc_pc = "idle"

\* calc = RobustCalculator()
CalcInit ==
    /\ history = <<>>
    /\ calls = 0
    /\ last_call = <<>>
    /\ returned = None
    /\ calc_pc = "ready"

\* calc.safe_calculate(operation, a, b): an exception the except clause does not
\* name leaves the method before anything is appended and ends the script
SafeCalculate(operation, a, b) ==
    /\ calc_pc = "ready"
    /\ calls < MaxCalls
    /\ calls' = calls + 1
    /\ last_call' = <<operation, a, b>>
    /\ LET outcome == calculate(operation, a, b)
       IN  IF ~outcome.raised
           THEN /\ history' = Append(history,
                                     [operation |-> operation, operands |-> <<a, b>>,
                                      result |-> outcome.value, success |-> TRUE])
                /\ returned' = outcome.value
                /\ calc_pc' = "ready"
           ELSE IF outcome.exception \in caught_exceptions
           THEN /\ history' = Append(history,
                                     [operation |-> operation, operands |-> <<a, b>>,
                                      error |-> outcome.text, success |-> FALSE])
                /\ returned' = None
                /\ calc_pc' = "ready"
           ELSE /\ history' = history
                /\ returned' = [type |-> "raised", exception |-> outcome.exception]
                /\ calc_pc' = "raised"
    /\ UNCHANGED nonCalc

\* calc.clear_history()
ClearHistory ==
    /\ calc_pc = "ready"
    /\ history' = <<>>
    /\ calls' = 0
    /\ UNCHANGED <<last_call, returned, calc_pc>>
    /\ UNCHANGED nonCalc

CalcNext ==
    \/ \E c \in test_calculations : SafeCalculate(c[1], c[2], c[3])
    \/ ClearHistory

----------------------------------------------------------------------------
(* BankAccount (src/04_functions_classes.py)                                *)

\* the largest amount handed to deposit and withdraw, and the largest initial balance
MaxBankAmount == 4
\* the balance up to which deposits are made
MaxBankBalance == 10

\* the amounts handed to deposit and withdraw: negative, zero and positive
BankAmounts == -1..MaxBankAmount

\* if amount > 0
deposit_accepts(amount) == amount > 0

withdraw_any_positive(amount, bal) == 0 < amount

\* if 0 < amount <= self._balance
withdraw_accepts(amount, bal) == 0 < amount /\ amount <= bal

\* no account exists
BankIdle ==
    /\ balance = 0
    /\ bank_call = [method |-> "none", amount |-> 0, before |-> 0, result |-> FALSE]
    /\ bank_pc = "idle"

\* account = BankAccount(initial_balance) with a non-negative initial balance
BankInit ==
    /\ balance \in 0..MaxBankAmount
    /\ bank_call = [method |-> "none", amount |-> 0, before |-> 0, result |-> FALSE]
    /\ bank_pc = "open"

\* account.deposit(amount)
Deposit(amount) ==
    /\ bank_pc = "open"
    /\ balance + amount <= MaxBankBalance
    /\ IF deposit_accepts(amount)
       THEN /\ balance' = balance + amount
            /\ bank_call' = [method |-> "deposit", amount |-> amount, before |-> balance,
                             result |-> TRUE]
       ELSE /\ balance' = balance
            /\ bank_call' = [method |-> "deposit", amount |-> amount, before |-> balance,
                             result |-> FALSE]
    /\ UNCHANGED bank_pc
    /\ UNCHANGED nonBank

\* account.withdraw(amount)
Withdraw(amount) ==
    /\ bank_pc = "open"
    /\ IF withdraw_accepts(amount, balance)
       THEN /\ balance' = balance - amount
            /\ bank_call' = [method |-> "withdraw", amount |-> amount, before |-> balance,
                             result |-> TRUE]
       ELSE /\ balance' = balance
            /\ bank_call' = [method |-> "withdraw", amount |-> amount, before |-> balance,
                             result |-> FALSE]
    /\ UNCHANGED bank_pc
    /\ UNCHANGED nonBank

BankNext ==
    \/ \E amount \in BankAmounts : Deposit(amount)
    \/ \E amount \in BankAmounts : Withdraw(amount)

----------------------------------------------------------------------------
(* Task and TaskManager (src/11_advanced_projects.py)                       *)

\* the most tasks added, and the last reading of the clock
MaxTasks == 2
MaxClock == 5

\* valid_statuses of update_status
valid_statuses == <<"pending", "in_progress", "completed", "cancelled">>

\* the values handed to update_status: the valid ones and others
NewStatuses == {"pending", "in_progress", "completed", "cancelled", "done", "Completed", ""}

any_status(new_status) == TRUE

\* new_status in valid_statuses
is_valid_status(new_status) == \E i \in 1..Len(valid_statuses) : valid_statuses[i] = new_status

\* Task(title, ...) constructed when datetime.now() reads t
NewTask(t) == [status |-> "pending", created_at |-> t, updated_at |-> t, id |-> 0]

\* the text sqlite3 stores for a datetime, and datetime.fromisoformat of that text
adapt_datetime(t) == [iso |-> t]
fromisoformat(text) == text.iso

\* the row INSERT INTO tasks stores for a task
TaskRow(task) ==
    [status |-> task.status, created_at |-> adapt_datetime(task.created_at),
     updated_at |-> adapt_datetime(task.updated_at)]

\* load_tasks: the dict built from the rows of SELECT * FROM tasks
load_tasks(table) ==
    [task_id \in DOMAIN table |->
        [status |-> table[task_id].status,
         created_at |-> fromisoformat(table[task_id].created_at),
         updated_at |-> fromisoformat(table[task_id].updated_at),
         id |-> task_id]]

\* cursor.lastrowid of an insert into a table with AUTOINCREMENT and no deletions
task_lastrowid(table) == Cardinality(DOMAIN table) + 1

NoTaskCall == [id |-> 0, new_status |-> "", result |-> FALSE, status_before |-> "",
               updated_at_before |-> 0]

\* no task manager exists
TasksIdle ==
    /\ tasks = <<>>
    /\ tasks_table = <<>>
    /\ clock = 0
    /\ task_call = NoTaskCall
    /\ fresh_tasks = <<>>
    /\ task_pc = "idle"

\* task_manager = TaskManager() on a database without tasks
TasksInit ==
    /\ tasks = <<>>
    /\ tasks_table = <<>>
    /\ clock = 1
    /\ task_call = NoTaskCall
    /\ fresh_tasks = <<>>
    /\ task_pc = "managing"

\* task_manager.add_task(Task(...))
AddTask ==
    /\ task_pc = "managing"
    /\ Cardinality(DOMAIN tasks_table) < MaxTasks
    /\ clock < MaxClock
    /\ LET task == NewTask(clock)
           task_id == task_lastrowid(tasks_table)
       IN  /\ tasks_table' = [i \in DOMAIN tasks_table \cup {task_id} |->
                                 IF i = task_id THEN TaskRow(task) ELSE tasks_table[i]]
           /\ tasks' = [i \in DOMAIN tasks \cup {task_id} |->
                           IF i = task_id THEN [task EXCEPT !.id = task_id] ELSE tasks[i]]
    /\ clock' = clock + 1
    /\ UNCHANGED <<task_call, fresh_tasks, task_pc>>
    /\ UNCHANGED nonTasks

\* task_manager.tasks[task_id].update_status(new_status)
UpdateStatus(task_id, new_status) ==
    /\ task_pc = "managing"
    /\ task_id \in DOMAIN tasks
    /\ clock < MaxClock
    /\ IF is_valid_status(new_status)
       THEN /\ tasks' = [tasks EXCEPT ![task_id].status = new_status,
                                      ![task_id].updated_at = clock]
            /\ task_call' = [id |-> task_id, new_status |-> new_status, result |-> TRUE,
                             status_before |-> tasks[task_id].status,
                             updated_at_before |-> tasks[task_id].updated_at]
       ELSE /\ tasks' = tasks
            /\ task_call' = [id |-> task_id, new_status |-> new_status, result |-> FALSE,
                             status_before |-> tasks[task_id].status,
                             updated_at_before |-> tasks[task_id].updated_at]
    /\ clock' = clock + 1
    /\ UNCHANGED <<tasks_table, fresh_tasks, task_pc>>
    /\ UNCHANGED nonTasks

\* a second TaskManager() on the same database: __init__ runs load_tasks
LoadFresh ==
    /\ task_pc = "managing"
    /\ fresh_tasks' = load_tasks(tasks_table)
    /\ task_pc' = "reloaded"
    /\ UNCHANGED <<tasks, tasks_table, clock, task_call>>
    /\ UNCHANGED nonTasks

TasksNext ==
    \/ AddTask
    \/ \E task_id \in 1..MaxTasks, new_status \in NewStatuses : UpdateStatus(task_id, new_status)
    \/ LoadFresh

----------------------------------------------------------------------------
(* DatabaseManager.add_post (src/10_database_operations.py)                 *)

\* the most rows the posts table holds
MaxPosts == 4

\* the user ids and titles handed to add_post; NoTitle is the title None
PostUserIds == {1, 2}
NoTitle == "None"
PostTitles == {"Python Database Tutorial", "Notes", NoTitle}

\* the posts a table of n rows holds before add_post is called
ExistingPosts(n) == [i \in 1..n |-> [user_id |-> 1, title |-> "Notes"]]

\* query.strip().upper().startswith('SELECT')
is_select(query) == query = "SELECT"

\* execute_query(query, params) on a table: the rows after it, the value of
\* sqlite_sequence after it, and its return value.  The posts table is
\* AUTOINCREMENT with title NOT NULL; an insert that violates NOT NULL raises
\* sqlite3.IntegrityError, which execute_query catches.
execute_query(query, params, table, seq) ==
    IF is_select(query)
    THEN [rows |-> table, seq |-> seq, value |-> [kind |-> "rows", rows |-> table]]
    ELSE IF params.title = NoTitle
    THEN [rows |-> table, seq |-> seq, value |-> [kind |-> "None"]]
    ELSE LET id == seq + 1
         IN  [rows |-> [i \in DOMAIN table \cup {id} |->
                           IF i = id THEN params ELSE table[i]],
              seq |-> id,
              value |-> [kind |-> "int", int |-> 1]]

\* no DatabaseManager exists
PostsIdle ==
    /\ posts = <<>>
    /\ posts_seq = 0
    /\ add_post_returned = [kind |-> "None"]
    /\ inserted_id = 0
    /\ posts_pc = "idle"

\* db = DatabaseManager("learning_db.sqlite") on a database with some posts
PostsInit ==
    /\ \E n \in 0..(MaxPosts - 1) : posts = ExistingPosts(n) /\ posts_seq = n
    /\ add_post_returned = [kind |-> "None"]
    /\ inserted_id = 0
    /\ posts_pc = "connected"

\* db.add_post(user_id, title, content)
AddPost(user_id, title) ==
    /\ posts_pc \in {"connected", "added"}
    /\ Cardinality(DOMAIN posts) < MaxPosts
    /\ LET done == execute_query("INSERT", [user_id |-> user_id, title |-> title],
                                 posts, posts_seq)
       IN  /\ posts' = done.rows
           /\ posts_seq' = done.seq
           /\ add_post_returned' = done.value
           /\ inserted_id' = IF done.seq = posts_seq THEN 0 ELSE done.seq
    /\ posts_pc' = "added"
    /\ UNCHANGED nonPosts

PostsNext == \E user_id \in PostUserIds, title \in PostTitles : AddPost(user_id, title)

----------------------------------------------------------------------------
(* QuizApp (src/12_games_and_apps.py)                                       *)

\* load_sample_questions: options and the 0-based index of the correct one
sample_questions ==
    << [options |-> <<"London", "Berlin", "Paris", "Madrid">>, correct |-> 2],
       [options |-> <<"Venus", "Mars", "Jupiter", "Saturn">>, correct |-> 1],
       [options |-> <<"40", "41", "42", "43">>, correct |-> 2],
       [options |-> <<"Van Gogh", "Picasso", "Da Vinci", "Michelangelo">>, correct |-> 2],
       [options |-> <<"African Elephant", "Blue Whale", "Giraffe", "Hippopotamus">>,
        correct |-> 1] >>

\* list[k] of a Python list held as a sequence
py_item(list, k) == list[k + 1]

\* the numbers a player types at "Your answer (1-4): "
TypedAnswers == 0..5

\* if 1 <= answer <= 4
answer_in_range(answer) == 1 <= answer /\ answer <= 4

answer_matches_index(q, user_answer) == user_answer = q.correct

\* check_answer: user_answer == q['correct'] + 1
answer_matches(q, user_answer) == user_answer = q.correct + 1

NoQuizInput == [kind |-> "none", score_before |-> 0, question_before |-> 0]

\* no quiz exists
QuizIdle ==
    /\ quiz_questions = <<>>
    /\ quiz_score = 0
    /\ quiz_i = 0
    /\ quiz_answers = <<>>
    /\ quiz_input = NoQuizInput
    /\ quiz_pc = "idle"

\* quiz = QuizApp(); run_quiz up to the first prompt
QuizInit ==
    /\ quiz_questions = sample_questions
    /\ quiz_score = 0
    /\ quiz_i = 0
    /\ quiz_answers = <<>>
    /\ quiz_input = NoQuizInput
    /\ quiz_pc = "asking"

\* one pass of the while loop in which int(user_input) raises ValueError
NotANumber ==
    /\ quiz_pc = "asking"
    /\ quiz_input' = [kind |-> "ValueError", score_before |-> quiz_score,
                      question_before |-> quiz_i]
    /\ UNCHANGED <<quiz_questions, quiz_score, quiz_i, quiz_answers, quiz_pc>>
    /\ UNCHANGED nonQuiz

\* one pass of the while loop with a number typed: in range, check_answer runs,
\* the loop breaks and the for loop goes on to the next question or, after the
\* last one, to show_results
TypeAnswer(answer) ==
    /\ quiz_pc = "asking"
    /\ IF answer_in_range(answer)
       THEN /\ quiz_score' = IF answer_matches(py_item(quiz_questions, quiz_i), answer)
                        THEN quiz_score + 1 ELSE quiz_score
            /\ quiz_answers' = Append(quiz_answers, answer)
            /\ quiz_i' = quiz_i + 1
            /\ quiz_input' = [kind |-> "accepted", score_before |-> quiz_score,
                              question_before |-> quiz_i]
            /\ quiz_pc' = IF quiz_i + 1 < Len(quiz_questions) THEN "asking" ELSE "results"
       ELSE /\ quiz_input' = [kind |-> "out of range", score_before |-> quiz_score,
                              question_before |-> quiz_i]
            /\ UNCHANGED <<quiz_score, quiz_i, quiz_answers, quiz_pc>>
    /\ UNCHANGED quiz_questions
    /\ UNCHANGED nonQuiz

QuizNext ==
    \/ NotANumber
    \/ \E answer \in TypedAnswers : TypeAnswer(answer)

----------------------------------------------------------------------------
(* Contact and ContactManager (src/11_advanced_projects.py)                 *)

\* the most contacts added, and the last reading of the clock
MaxContacts == 2
MaxContactClock == 4

\* the value None where a text is expected
NullText == "None"

\* the attributes __init__ gives a Contact
ContactFields == {"name", "phone", "email", "address", "notes", "created_at", "updated_at"}

\* the columns declared NOT NULL
NotNullColumns == {"name", "phone", "email"}

\* the columns the UPDATE statement of update_contact sets
UpdatedColumns == {"name", "phone", "email", "address", "notes", "updated_at"}

\* Contact(name, phone, email) constructed when datetime.now() reads t
NewContact(name, phone, email, t) ==
    [name |-> name, phone |-> phone, email |-> email, address |-> "", notes |-> "",
     created_at |-> t, updated_at |-> t]

\* the name, phone and email of the contacts handed to add_contact
SampleContacts ==
    { [name |-> "Alice", phone |-> "555-0001", email |-> "alice@example.com"],
      [name |-> "Bob", phone |-> "555-0002", email |-> "bob@example.com"] }

\* the keyword arguments handed to update_contact
UpdateKwargs ==
    { [name |-> "Carol"],
      [phone |-> "555-0003", email |-> "carol@example.com"],
      [address |-> "1 Main St", notes |-> "friend"],
      [nickname |-> "Al"],
      [updated_at |-> 0],
      [created_at |-> 0],
      [name |-> NullText] }

\* Contact.update(**kwargs) when datetime.now() reads t: setattr for every key the
\* contact has as an attribute, then updated_at
contact_update(contact, kwargs, t) ==
    [f \in ContactFields |->
        IF f = "updated_at" THEN t
        ELSE IF f \in DOMAIN kwargs THEN kwargs[f]
        ELSE contact[f]]

\* the value sqlite3 stores in a column for an attribute, and the attribute
\* load_contacts builds from a column
column_of(f, value) == IF f \in {"created_at", "updated_at"} THEN adapt_datetime(value) ELSE value
attribute_of(f, column) == IF f \in {"created_at", "updated_at"} THEN fromisoformat(column) ELSE column

\* the row INSERT INTO contacts stores for a contact
ContactRow(contact) == [f \in ContactFields |-> column_of(f, contact[f])]

\* the row after UPDATE contacts SET ... WHERE id=? with the contact's attributes
UpdatedRow(row, contact) ==
    [f \in ContactFields |-> IF f \in UpdatedColumns THEN column_of(f, contact[f]) ELSE row[f]]

\* the statement violates a NOT NULL constraint: sqlite3.IntegrityError
violates_not_null(contact) == \E f \in NotNullColumns : contact[f] = NullText

NoContactCall == [method |-> "none", id |-> 0, result |-> "none"]

\* no contact manager exists
ContactsIdle ==
    /\ contacts = <<>>
    /\ contacts_table = <<>>
    /\ contacts_seq = 0
    /\ contact_clock = 0
    /\ contact_call = NoContactCall
    /\ contacts_before = <<>>
    /\ contact_pc = "idle"

\* contact_manager = ContactManager() on a database without contacts
ContactsInit ==
    /\ contacts = <<>>
    /\ contacts_table = <<>>
    /\ contacts_seq = 0
    /\ contact_clock = 1
    /\ contact_call = NoContactCall
    /\ contacts_before = <<>>
    /\ contact_pc = "managing"

\* contact_manager.add_contact(Contact(name, phone, email))
AddContact(args) ==
    /\ contact_pc = "managing"
    /\ Cardinality(DOMAIN contacts_table) < MaxContacts
    /\ contact_clock < MaxContactClock
    /\ LET contact == NewContact(args.name, args.phone, args.email, contact_clock)
           contact_id == contacts_seq + 1
       IN  /\ contacts_table' = [i \in DOMAIN contacts_table \cup {contact_id} |->
                                    IF i = contact_id THEN ContactRow(contact)
                                    ELSE contacts_table[i]]
           /\ contacts' = [i \in DOMAIN contacts \cup {contact_id} |->
                              IF i = contact_id THEN contact ELSE contacts[i]]
           /\ contacts_seq' = contact_id
           /\ contact_call' = [method |-> "add_contact", id |-> contact_id,
                               result |-> "id"]
    /\ contacts_before' = [memory |-> contacts, table |-> contacts_table]
    /\ contact_clock' = contact_clock + 1
    /\ UNCHANGED contact_pc
    /\ UNCHANGED nonContacts

\* contact_manager.update_contact(contact_id, **kwargs): the contact in memory is
\* updated first; an IntegrityError of the UPDATE leaves the method after that
UpdateContact(contact_id, kwargs) ==
    /\ contact_pc = "managing"
    /\ contact_clock < MaxContactClock
    /\ contacts_before' = [memory |-> contacts, table |-> contacts_table]
    /\ IF contact_id \notin DOMAIN contacts
       THEN /\ contact_call' = [method |-> "update_contact", id |-> contact_id,
                                result |-> "False"]
            /\ UNCHANGED <<contacts, contacts_table, contact_pc>>
       ELSE LET contact == contact_update(contacts[contact_id], kwargs, contact_clock)
            IN  /\ contacts' = [contacts EXCEPT ![contact_id] = contact]
                /\ IF violates_not_null(contact)
                   THEN /\ contacts_table' = contacts_table
                        /\ contact_call' = [method |-> "update_contact", id |-> contact_id,
                                            result |-> "IntegrityError"]
                        /\ contact_pc' = "raised"
                   ELSE /\ contacts_table' =
                              [contacts_table EXCEPT
                                  ![contact_id] = UpdatedRow(contacts_table[contact_id], contact)]
                        /\ contact_call' = [method |-> "update_contact", id |-> contact_id,
                                            result |-> "True"]
                        /\ contact_pc' = contact_pc
    /\ contact_clock' = contact_clock + 1
    /\ UNCHANGED contacts_seq
    /\ UNCHANGED nonContacts

\* contact_manager.delete_contact(contact_id)
DeleteContact(contact_id) ==
    /\ contact_pc = "managing"
    /\ contact_clock < MaxContactClock
    /\ contacts_before' = [memory |-> contacts, table |-> contacts_table]
    /\ IF contact_id \notin DOMAIN contacts
       THEN /\ contact_call' = [method |-> "delete_contact", id |-> contact_id,
                                result |-> "False"]
            /\ UNCHANGED <<contacts, contacts_table>>
       ELSE /\ contacts_table' = [i \in DOMAIN contacts_table \ {contact_id} |->
                                     contacts_table[i]]
            /\ contacts' = [i \in DOMAIN contacts \ {contact_id} |-> contacts[i]]
            /\ contact_call' = [method |-> "delete_contact", id |-> contact_id,
                                result |-> "True"]
    /\ contact_clock' = contact_clock + 1
    /\ UNCHANGED <<contacts_seq, contact_pc>>
    /\ UNCHANGED nonContacts

ContactsNext ==
    \/ \E args \in SampleContacts : AddContact(args)
    \/ \E contact_id \in 1..(MaxContacts + 1), kwargs \in UpdateKwargs :
          UpdateContact(contact_id, kwargs)
    \/ \E contact_id \in 1..(MaxContacts + 1) : DeleteContact(contact_id)

----------------------------------------------------------------------------
(* Specifications and properties of TicTacToe *)

OthersIdleTTT ==
    /\ CaesarIdle /\ HangmanIdle /\ GuessIdle /\ TxnIdle /\ NotesIdle /\ PwIdle
    /\ StrengthIdle /\ CalcIdle /\ BankIdle /\ TasksIdle /\ PostsIdle /\ QuizIdle
    /\ ContactsIdle

InitTTT == TTTInit /\ OthersIdleTTT

SpecTTT == InitTTT /\ [][TTTNext]_vars

InitWinner == WinnerInit /\ OthersIdleTTT

SpecWinner == InitWinner /\ [][WinnerNext]_vars

\* the 8 winning lines, each a set of three <<row, column>> positions
WinningLines ==
    {{<<r, 0>>, <<r, 1>>, <<r, 2>>} : r \in Idx} \cup
    {{<<0, c>>, <<1, c>>, <<2, c>>} : c \in Idx} \cup
    {{<<0, 0>>, <<1, 1>>, <<2, 2>>}, {<<0, 2>>, <<1, 1>>, <<2, 0>>}}

LineFilledWith(b, line, mark) == \A pos \in line : b[pos[1]][pos[2]] = mark

MarksFillingALine(b) ==
    {mark \in {"X", "O"} : \E line \in WinningLines : LineFilledWith(b, line, mark)}

CountMark(b, mark) == Cardinality({pos \in Idx \X Idx : b[pos[1]][pos[2]] = mark})

\* C1: check_winner returns a mark that fills one of the 8 winning lines whenever
\* some line is filled with X or with O, and None on every other board.
C1_CheckWinnerCorrect ==
    cw_result # "unchecked" =>
        IF MarksFillingALine(board) = {}
        THEN cw_result = "None"
        ELSE cw_result \in MarksFillingALine(board)

\* C1 witness: check_winner has returned O for a board whose only filled line is
\* the diagonal from the top right to the bottom left.
C1_Witness ==
    /\ cw_result = "O"
    /\ \A line \in WinningLines :
          LineFilledWith(board, line, "O") <=> line = {<<0, 2>>, <<1, 1>>, <<2, 0>>}
    /\ MarksFillingALine(board) = {"O"}

\* C3: the number of X marks exceeds the number of O marks by 0 or 1 in every
\* state, and while the game is not over it is X's turn exactly when the counts
\* are equal and O's turn exactly when there is one more X.
C3_TurnsAlternate ==
    LET diff == CountMark(board, "X") - CountMark(board, "O")
    IN  /\ diff \in {0, 1}
        /\ ~game_over => /\ current_player = "X" <=> diff = 0
                         /\ current_player = "O" <=> diff = 1

\* C3 witness: the game is running, two X and one O are on the board and it is
\* O's turn.
C3_Witness ==
    /\ ~game_over
    /\ current_player = "O"
    /\ CountMark(board, "X") = 2
    /\ CountMark(board, "O") = 1

\* C4: a move outside 0..2 or onto an occupied cell is refused and changes neither
\* the board nor the player to move nor game_over (so the same player is asked
\* again); an accepted move writes the mover's mark into the chosen cell and
\* changes no other cell.
C4_MoveRejectedOrWritten ==
    [][last_input'.kind = "move" =>
         LET row == last_input'.row
             col == last_input'.col
             refused == IF row \in Idx /\ col \in Idx THEN board[row][col] # " " ELSE TRUE
         IN  IF refused
             THEN /\ last_input'.ok = FALSE
                  /\ UNCHANGED <<board, current_player, game_over>>
                  /\ ~game_over'
             ELSE /\ last_input'.ok = TRUE
                  /\ board'[row][col] = current_player
                  /\ \A r \in Idx, c \in Idx :
                        <<r, c>> # <<row, col>> => board'[r][c] = board[r][c]
    ]_vars

\* C4 witness: a move onto an occupied cell inside the board has been refused.
C4_Witness ==
    /\ last_input.kind = "move"
    /\ last_input.row \in Idx /\ last_input.col \in Idx
    /\ last_input.ok = FALSE
    /\ board[last_input.row][last_input.col] # " "
    /\ ~game_over

\* C5: at most 9 moves are accepted; the game is over exactly when a line is
\* complete or the board is full; a tie is announced only for a full board with
\* no complete line, and a complete line is always announced as a win.
C5_GameEnds ==
    LET line == MarksFillingALine(board) # {}
        full == CountMark(board, " ") = 0
    IN  /\ accepted_moves <= 9
        /\ accepted_moves = 9 - CountMark(board, " ")
        /\ game_over <=> (line \/ full)
        /\ announced = "tie" <=> (full /\ ~line)
        /\ announced = "win" <=> line

\* C5 witness: the ninth move has completed a line and a win was announced.
C5_Witness ==
    /\ game_over
    /\ accepted_moves = 9
    /\ announced = "win"

----------------------------------------------------------------------------
(* Specification and properties of caesar_cipher *)

OthersIdleCaesar ==
    /\ TTTIdle /\ HangmanIdle /\ GuessIdle /\ TxnIdle /\ NotesIdle /\ PwIdle
    /\ StrengthIdle /\ CalcIdle /\ BankIdle /\ TasksIdle /\ PostsIdle /\ QuizIdle
    /\ ContactsIdle

InitCaesar == CaesarInit /\ OthersIdleCaesar

SpecCaesar == InitCaesar /\ [][CaesarNext]_vars

\* C2: decrypting with shift k what was encrypted with shift k gives the text
\* back, for texts of ASCII letters of both cases and non-letters and for every
\* k in 0..25; encryption leaves every non-letter as it is and maps lower case
\* to lower case and upper case to upper case.
C2_CaesarRoundTrip ==
    /\ caesar_pc = "decrypted" => caesar_decrypted = caesar_text
    /\ caesar_pc \in {"encrypted", "decrypted"} =>
          /\ Len(caesar_encrypted) = Len(caesar_text)
          /\ \A i \in 1..Len(caesar_text) :
                /\ caesar_text[i] \in NonLetters => caesar_encrypted[i] = caesar_text[i]
                /\ islower(caesar_text[i]) <=> islower(caesar_encrypted[i])
                /\ isupper(caesar_text[i]) <=> isupper(caesar_encrypted[i])

\* C2 witness: a text with letters of both cases that wrap around and with
\* non-letters has been encrypted to a different text and decrypted again.
C2_Witness ==
    /\ caesar_pc = "decrypted"
    /\ caesar_shift = 5
    /\ caesar_text = <<"x", "y", "z", " ", "X", "Y", "Z", " ", "a", "A">>
    /\ caesar_encrypted = <<"c", "d", "e", " ", "C", "D", "E", " ", "f", "F">>

----------------------------------------------------------------------------
(* Specification and properties of HangmanGame *)

OthersIdleHangman ==
    /\ TTTIdle /\ CaesarIdle /\ GuessIdle /\ TxnIdle /\ NotesIdle /\ PwIdle
    /\ StrengthIdle /\ CalcIdle /\ BankIdle /\ TasksIdle /\ PostsIdle /\ QuizIdle
    /\ ContactsIdle

InitHangman == HangmanInit /\ OthersIdleHangman

SpecHangman == InitHangman /\ [][HangmanNext]_vars

WrongLettersGuessed == {l \in guessed_letters : ~in_word(l, word)}

\* C6: wrong_guesses stays between 0 and 6 and counts the guessed letters that
\* are not in the word; the game is reported lost exactly when wrong_guesses
\* is 6, and in a state with 6 wrong guesses the loop has ended, so no guess is
\* taken any more.
C6_SixWrongGuesses ==
    /\ wrong_guesses \in 0..6
    /\ max_wrong_guesses = 6
    /\ wrong_guesses = Cardinality(WrongLettersGuessed)
    /\ hangman_outcome = "lost" <=> wrong_guesses = 6
    /\ wrong_guesses = 6 => hangman_pc = "over"
    /\ hangman_pc = "over" => ~ENABLED HangmanNext
    /\ hangman_pc = "over" <=> hangman_outcome \in {"won", "lost"}

\* C6 witness: the game has been lost with six wrong letters and at least one
\* right letter guessed.
C6_Witness ==
    /\ hangman_pc = "over"
    /\ hangman_outcome = "lost"
    /\ wrong_guesses = 6
    /\ Cardinality(guessed_letters) > 6

----------------------------------------------------------------------------
(* Specification and properties of number_guessing_game *)

OthersIdleGuess ==
    /\ TTTIdle /\ CaesarIdle /\ HangmanIdle /\ TxnIdle /\ NotesIdle /\ PwIdle
    /\ StrengthIdle /\ CalcIdle /\ BankIdle /\ TasksIdle /\ PostsIdle /\ QuizIdle
    /\ ContactsIdle

InitGuess == GuessInit /\ OthersIdleGuess

SpecGuess == InitGuess /\ [][GuessNext]_vars

\* C7: an invalid input leaves attempts as it was, attempts stays between 0 and
\* max_attempts = 7, and at most 7 numeric guesses are taken in one game.
C7_InvalidInputNotCounted ==
    /\ [][guess_feedback' = "invalid" => attempts' = attempts]_vars
    /\ [](attempts \in 0..max_attempts)
    /\ [](numeric_guesses <= max_attempts)

----------------------------------------------------------------------------
(* Specification and properties of transaction_example *)

OthersIdleTxn ==
    /\ TTTIdle /\ CaesarIdle /\ HangmanIdle /\ GuessIdle /\ NotesIdle /\ PwIdle
    /\ StrengthIdle /\ CalcIdle /\ BankIdle /\ TasksIdle /\ PostsIdle /\ QuizIdle
    /\ ContactsIdle

InitTxn == TxnInit /\ OthersIdleTxn

SpecTxn == InitTxn /\ [][TxnNext]_vars

\* the table with the whole transfer applied to the balances of the setup
Transferred ==
    [Alice |-> initial_accounts.Alice - transfer_amount,
     Bob   |-> initial_accounts.Bob + transfer_amount]

\* C8: the committed table holds, at every moment, either the balances of the
\* setup or those balances with both updates applied (same sum); the transfer
\* is committed only if Alice's balance after the debit is not negative, and in
\* every other case the table ends with the balances of the setup.
C8_TransferAllOrNothing ==
    /\ accounts_db \in {initial_accounts, Transferred}
    /\ accounts_db.Alice + accounts_db.Bob = initial_accounts.Alice + initial_accounts.Bob
    /\ txn_outcome = "committed" =>
          /\ accounts_db = Transferred
          /\ initial_accounts.Alice - transfer_amount >= 0
    /\ txn_outcome \in {"rolled back", "failed"} => accounts_db = initial_accounts
    /\ txn_outcome = "rolled back" => initial_accounts.Alice - transfer_amount < 0
    /\ txn_pc = "closed" =>
          /\ ~in_transaction
          /\ accounts_tx = accounts_db
          /\ accounts_db.Alice >= 0

\* C8 witness: a transfer larger than Alice's balance has been rolled back and
\* the connection is closed.
C8_Witness ==
    /\ txn_pc = "closed"
    /\ txn_outcome = "rolled back"
    /\ transfer_amount > initial_accounts.Alice
    /\ accounts_db = initial_accounts

----------------------------------------------------------------------------
(* Specification and properties of NoteTakingApp *)

OthersIdleNotes ==
    /\ TTTIdle /\ CaesarIdle /\ HangmanIdle /\ GuessIdle /\ TxnIdle /\ PwIdle
    /\ StrengthIdle /\ CalcIdle /\ BankIdle /\ TasksIdle /\ PostsIdle /\ QuizIdle
    /\ ContactsIdle

InitNotes == NotesInit /\ OthersIdleNotes

SpecNotes == InitNotes /\ [][NotesNext]_vars

\* C20: the categories set holds the category of every note of the list.
C20_CategoriesCoverNotes ==
    notes_pc = "running" =>
        \A i \in 1..Len(notes) : notes[i].category \in categories

\* C9: no two notes of the list have the same id.
C9_NoteIdsUnique ==
    \A i \in 1..Len(notes) : \A j \in 1..Len(notes) : i # j => notes[i].id # notes[j].id

----------------------------------------------------------------------------
(* Specification and properties of generate_password *)

OthersIdlePw ==
    /\ TTTIdle /\ CaesarIdle /\ HangmanIdle /\ GuessIdle /\ TxnIdle /\ NotesIdle
    /\ StrengthIdle /\ CalcIdle /\ BankIdle /\ TasksIdle /\ PostsIdle /\ QuizIdle
    /\ ContactsIdle

InitPw == PwInit /\ OthersIdlePw

SpecPw == InitPw /\ [][PwNext]_vars

Max(a, b) == IF a >= b THEN a ELSE b

Contains(seq, set) == \E i \in 1..Len(seq) : seq[i] \in set

\* C10: the returned password has exactly max(length, 4) characters and holds
\* an upper-case letter, a digit and a symbol whenever the matching include
\* flag is set.
C10_LengthAndRequiredTypes ==
    pw_pc = "returned" =>
        /\ Len(password) = Max(pw_request.length, 4)
        /\ pw_request.include_uppercase => Contains(password, uppercase)
        /\ pw_request.include_digits => Contains(password, digits)
        /\ pw_request.include_symbols => Contains(password, symbols)

\* C11: with exclude_similar the returned password holds none of 0, O, 1, l, I,
\* and with exclude_ambiguous none of the characters of ambiguous_chars.
C11_ExcludedCharsAbsent ==
    pw_pc = "returned" =>
        /\ pw_request.exclude_similar => ~Contains(password, similar_chars)
        /\ pw_request.exclude_ambiguous => ~Contains(password, ambiguous_chars)

\* C10 witness: a password of five characters requested with all three types
\* has been returned with its required characters shuffled out of the first three
\* places.
C10_Witness ==
    /\ pw_pc = "returned"
    /\ pw_request.length = 5
    /\ pw_request.include_uppercase /\ pw_request.include_digits /\ pw_request.include_symbols
    /\ Len(password) = 5
    /\ password[1] \in lowercase /\ password[2] \in lowercase
    /\ password[3] \in symbols /\ password[4] \in digits /\ password[5] \in uppercase

----------------------------------------------------------------------------
(* Specification and properties of analyze_password_strength *)

OthersIdleStrength ==
    /\ TTTIdle /\ CaesarIdle /\ HangmanIdle /\ GuessIdle /\ TxnIdle /\ NotesIdle
    /\ PwIdle /\ CalcIdle /\ BankIdle /\ TasksIdle /\ PostsIdle /\ QuizIdle
    /\ ContactsIdle

InitStrength == StrengthInit /\ OthersIdleStrength

SpecStrength == InitStrength /\ [][StrengthNext]_vars

\* C12: the score analyze_password_strength returns lies between 0 and 7.
C12_ScoreWithinSeven ==
    strength_pc = "returned" => analysis.score \in 0..7

----------------------------------------------------------------------------
(* Specification and properties of RobustCalculator *)

OthersIdleCalc ==
    /\ TTTIdle /\ CaesarIdle /\ HangmanIdle /\ GuessIdle /\ TxnIdle /\ NotesIdle
    /\ PwIdle /\ StrengthIdle /\ BankIdle /\ TasksIdle /\ PostsIdle /\ QuizIdle
    /\ ContactsIdle

InitCalc == CalcInit /\ OthersIdleCalc

SpecCalc == InitCalc /\ [][CalcNext]_vars

\* the cases the claim names as errors: an operand that is not a number, a
\* division by zero (also that of a zero base raised to a negative power), an
\* operation that is not one of the five
NamedErrorCase(c) ==
    \/ ~is_number(c[2]) \/ ~is_number(c[3])
    \/ c[1] = "divide" /\ is_zero(c[3])
    \/ c[1] = "power" /\ is_zero(c[2]) /\ c[3].mant < 0
    \/ c[1] \notin {"add", "subtract", "multiply", "divide", "power"}

\* C13: the history holds one entry for every safe_calculate call since the last
\* clear_history; a call with an operand that is not a number, a division by zero
\* or an unknown operation returned None and appended an entry with success False
\* and an error text, every other call returned its result and appended an entry
\* with success True and that result.
C13_EveryCallRecorded ==
    /\ Len(history) = calls
    /\ calls > 0 =>
          LET entry == history[Len(history)]
          IN  /\ entry.operation = last_call[1]
              /\ entry.operands = <<last_call[2], last_call[3]>>
              /\ IF NamedErrorCase(last_call)
                 THEN returned = None /\ ~entry.success /\ entry.error # ""
                 ELSE entry.success /\ returned = entry.result /\ returned # None

----------------------------------------------------------------------------
(* Specification and properties of BankAccount *)

OthersIdleBank ==
    /\ TTTIdle /\ CaesarIdle /\ HangmanIdle /\ GuessIdle /\ TxnIdle /\ NotesIdle
    /\ PwIdle /\ StrengthIdle /\ CalcIdle /\ TasksIdle /\ PostsIdle /\ QuizIdle
    /\ ContactsIdle

InitBank == BankInit /\ OthersIdleBank

SpecBank == InitBank /\ [][BankNext]_vars

\* C14: the balance is never negative; deposit with amount <= 0 and withdraw with
\* amount <= 0 or amount above the balance return False and leave the balance as
\* it was, every other call returns True and changes the balance by exactly amount.
C14_BalanceNeverNegative ==
    /\ balance >= 0
    /\ bank_call.method = "deposit" =>
          IF bank_call.amount <= 0
          THEN ~bank_call.result /\ balance = bank_call.before
          ELSE bank_call.result /\ balance = bank_call.before + bank_call.amount
    /\ bank_call.method = "withdraw" =>
          IF bank_call.amount <= 0 \/ bank_call.amount > bank_call.before
          THEN ~bank_call.result /\ balance = bank_call.before
          ELSE bank_call.result /\ balance = bank_call.before - bank_call.amount

\* a withdrawal of more than the balance has been refused
C14_Witness ==
    /\ bank_call.method = "withdraw"
    /\ bank_call.amount > bank_call.before
    /\ bank_call.before > 0
    /\ ~bank_call.result
    /\ balance = bank_call.before

----------------------------------------------------------------------------
(* Specification and properties of Task and TaskManager *)

OthersIdleTasks ==
    /\ TTTIdle /\ CaesarIdle /\ HangmanIdle /\ GuessIdle /\ TxnIdle /\ NotesIdle
    /\ PwIdle /\ StrengthIdle /\ CalcIdle /\ BankIdle /\ PostsIdle /\ QuizIdle
    /\ ContactsIdle

InitTasks == TasksInit /\ OthersIdleTasks

SpecTasks == InitTasks /\ [][TasksNext]_vars

\* C15: the status of every task is one of pending, in_progress, completed and
\* cancelled; the last update_status call on a task, if it was given one of the
\* four, returned True and set the status, and otherwise returned False and left
\* status and updated_at as they were.
C15_StatusAlwaysValid ==
    /\ \A i \in DOMAIN tasks :
          tasks[i].status \in {"pending", "in_progress", "completed", "cancelled"}
    /\ task_call.id # 0 =>
          IF task_call.new_status \in {"pending", "in_progress", "completed", "cancelled"}
          THEN task_call.result /\ tasks[task_call.id].status = task_call.new_status
          ELSE /\ ~task_call.result
               /\ tasks[task_call.id].status = task_call.status_before
               /\ tasks[task_call.id].updated_at = task_call.updated_at_before

\* a task that had left pending was handed a value that is no status
C15_Witness ==
    /\ task_call.id # 0
    /\ task_call.new_status = "done"
    /\ task_call.status_before = "completed"
    /\ ~task_call.result
    /\ tasks[task_call.id].status = "completed"

\* C18: a fresh TaskManager that loads the database holds, for every task id of
\* the manager in memory, the status that task has in memory.
C18_TableReflectsStatus ==
    task_pc = "reloaded" =>
        \A i \in DOMAIN tasks :
            i \in DOMAIN fresh_tasks /\ fresh_tasks[i].status = tasks[i].status

----------------------------------------------------------------------------
(* Specification and properties of DatabaseManager.add_post *)

OthersIdlePosts ==
    /\ TTTIdle /\ CaesarIdle /\ HangmanIdle /\ GuessIdle /\ TxnIdle /\ NotesIdle
    /\ PwIdle /\ StrengthIdle /\ CalcIdle /\ BankIdle /\ TasksIdle /\ QuizIdle
    /\ ContactsIdle

InitPosts == PostsInit /\ OthersIdlePosts

SpecPosts == InitPosts /\ [][PostsNext]_vars

\* C16: add_post returns the id of the post it has just inserted.
C16_AddPostReturnsId ==
    (posts_pc = "added" /\ inserted_id # 0) =>
        add_post_returned = [kind |-> "int", int |-> inserted_id]

----------------------------------------------------------------------------
(* Specification and properties of QuizApp *)

OthersIdleQuiz ==
    /\ TTTIdle /\ CaesarIdle /\ HangmanIdle /\ GuessIdle /\ TxnIdle /\ NotesIdle
    /\ PwIdle /\ StrengthIdle /\ CalcIdle /\ BankIdle /\ TasksIdle /\ PostsIdle
    /\ ContactsIdle

InitQuiz == QuizInit /\ OthersIdleQuiz

SpecQuiz == InitQuiz /\ [][QuizNext]_vars

\* the questions among the first n whose accepted answer names the correct option
CorrectlyAnswered(n) ==
    {k \in 1..n : quiz_questions[k].options[quiz_answers[k]]
                    = quiz_questions[k].options[quiz_questions[k].correct + 1]}

\* C17: the score is the number of correctly answered questions: every question so
\* far has one accepted answer, in order; an input that is no number in 1..4
\* changed neither the score nor the question; the score is the number of
\* questions whose accepted answer is the correct option and lies between 0 and
\* the number of questions; show_results is reached with every question answered.
C17_ScoreCountsCorrectAnswers ==
    /\ Len(quiz_answers) = quiz_i
    /\ \A k \in 1..Len(quiz_answers) : quiz_answers[k] \in 1..4
    /\ quiz_score = Cardinality(CorrectlyAnswered(Len(quiz_answers)))
    /\ 0 <= quiz_score /\ quiz_score <= Len(quiz_questions)
    /\ quiz_input.kind \in {"ValueError", "out of range"} =>
          quiz_score = quiz_input.score_before /\ quiz_i = quiz_input.question_before
    /\ quiz_pc = "results" => Len(quiz_answers) = Len(quiz_questions)

\* the quiz has ended with some answers right and some wrong
C17_Witness ==
    /\ quiz_pc = "results"
    /\ quiz_score = 3
    /\ quiz_answers[1] = 3
    /\ quiz_answers[2] = 1

----------------------------------------------------------------------------
(* Specification and properties of Contact and ContactManager *)

OthersIdleContacts ==
    /\ TTTIdle /\ CaesarIdle /\ HangmanIdle /\ GuessIdle /\ TxnIdle /\ NotesIdle
    /\ PwIdle /\ StrengthIdle /\ CalcIdle /\ BankIdle /\ TasksIdle /\ PostsIdle
    /\ QuizIdle

InitContacts == ContactsInit /\ OthersIdleContacts

SpecContacts == InitContacts /\ [][ContactsNext]_vars

\* C19: the contacts dict and the contacts table hold the same ids and, for every
\* id, the same name, phone, email, address, notes, created_at and updated_at;
\* update_contact and delete_contact with an unknown id returned False and changed
\* neither.
C19_DictAndTableAgree ==
    /\ DOMAIN contacts = DOMAIN contacts_table
    /\ \A i \in DOMAIN contacts :
          \A f \in {"name", "phone", "email", "address", "notes", "created_at", "updated_at"} :
              contacts[i][f] = attribute_of(f, contacts_table[i][f])
    /\ (/\ contact_call.method \in {"update_contact", "delete_contact"}
        /\ contact_call.id \notin DOMAIN contacts_before.memory) =>
          /\ contact_call.result = "False"
          /\ contacts = contacts_before.memory
          /\ contacts_table = contacts_before.table

====
